---- MODULE Spec2Model ----
(***************************************************************************)
(* The checkpoint conversion script convert_openai_weights_to_hf.py (key   *)
(* remapping, fused-projection split, write_model, main) and the routing   *)
(* of Qwen2MoeNaiveMoe.forward, as state machines.                         *)
(*                                                                         *)
(* A text (a parameter name, the joined key text) is a sequence of         *)
(* one-character strings.  In a regular expression the element "." is the  *)
(* wildcard, "(\\d+)" the digit group and "(k|v|q)" the alternation group; *)
(* in a replacement template "\\1" and "\\2" are group references.         *)
(***************************************************************************)
EXTENDS Integers, Sequences, FiniteSets, TLC

(* ------------------------------ bounds -------------------------------- *)
\* most keys in a source checkpoint
MaxKeys == 2
\* most shard files of a source checkpoint
MaxShards == 2
\* largest last-axis size of a tensor
MaxLast == 6
\* most input vectors (batch_size * sequence_length) of a forward pass
MaxTokens == 2
\* the input dtype holds the multiples of 1 / Grid
Grid == 8

(* ------------------------- words of the names ------------------------- *)
T_norm == <<"n", "o", "r", "m">>
T_weight == <<"w", "e", "i", "g", "h", "t">>
T_bias == <<"b", "i", "a", "s">>
T_unembedding == <<"u", "n", "e", "m", "b", "e", "d", "d", "i", "n", "g">>
T_embedding == <<"e", "m", "b", "e", "d", "d", "i", "n", "g">>
T_lm_head == <<"l", "m", "_", "h", "e", "a", "d">>
T_embed_tokens == <<"e", "m", "b", "e", "d", "_", "t", "o", "k", "e", "n", "s">>
T_rope == <<"r", "o", "p", "e">>
T_freqs == <<"f", "r", "e", "q", "s">>
T_block == <<"b", "l", "o", "c", "k">>
T_attn == <<"a", "t", "t", "n">>
T_qkv == <<"q", "k", "v">>
T_out == <<"o", "u", "t">>
T_sinks == <<"s", "i", "n", "k", "s">>
T_layers == <<"l", "a", "y", "e", "r", "s">>
T_self_attn == <<"s", "e", "l", "f", "_", "a", "t", "t", "n">>
T_proj == <<"_", "p", "r", "o", "j">>
T_q_proj == <<"q", "_", "p", "r", "o", "j">>
T_o_proj == <<"o", "_", "p", "r", "o", "j">>
T_k_proj == <<"k", "_", "p", "r", "o", "j">>
T_v_proj == <<"v", "_", "p", "r", "o", "j">>
T_input_layernorm == <<"i", "n", "p", "u", "t", "_", "l", "a", "y", "e", "r", "n", "o", "r", "m">>
T_mlp == <<"m", "l", "p">>
T_mlp1_weight == <<"m", "l", "p", "1", "_", "w", "e", "i", "g", "h", "t">>
T_mlp1_bias == <<"m", "l", "p", "1", "_", "b", "i", "a", "s">>
T_mlp2_weight == <<"m", "l", "p", "2", "_", "w", "e", "i", "g", "h", "t">>
T_mlp2_bias == <<"m", "l", "p", "2", "_", "b", "i", "a", "s">>
T_gate_up_proj == <<"g", "a", "t", "e", "_", "u", "p", "_", "p", "r", "o", "j">>
T_down_proj == <<"d", "o", "w", "n", "_", "p", "r", "o", "j">>
T_post_attention_layernorm == <<"p", "o", "s", "t", "_", "a", "t", "t", "e", "n", "t", "i", "o", "n", "_", "l", "a", "y", "e", "r", "n", "o", "r", "m">>
T_gate == <<"g", "a", "t", "e">>
T_router == <<"r", "o", "u", "t", "e", "r">>
T_language_model == <<"l", "a", "n", "g", "u", "a", "g", "e", "_", "m", "o", "d", "e", "l">>
Dot == <<".">>
NL == "\n"
\* the characters "(k|v|q)" as they stand in a replacement and in a name
T_kvq == <<"(", "k", "|", "v", "|", "q", ")">>
Digits == {"0", "1", "2", "3", "4", "5", "6", "7", "8", "9"}
\* regular-expression elements
AnyChar == "."
DigitGroup == "(\\d+)"
KvqGroup == "(k|v|q)"
\* Python's None as a replacement
None == <<"None">>
\* the value of a text operation that raised
ReError == <<"error">>

(* ------------- ORIGINAL_TO_CONVERTED_KEY_MAPPING, in order ------------- *)
BlockN == T_block \o Dot \o <<DigitGroup>> \o Dot
LayersN == T_layers \o Dot \o <<"\\1">> \o Dot

ORIGINAL_TO_CONVERTED_KEY_MAPPING == <<
    [pattern |-> T_norm \o Dot \o T_weight,
     replacement |-> T_norm \o Dot \o T_weight],
    [pattern |-> T_unembedding \o Dot \o T_weight,
     replacement |-> T_lm_head \o Dot \o T_weight],
    [pattern |-> T_embedding,
     replacement |-> T_embed_tokens],
    [pattern |-> T_rope \o Dot \o T_freqs,
     replacement |-> None],
    [pattern |-> BlockN \o T_attn \o Dot \o T_qkv,
     replacement |-> LayersN \o T_self_attn \o Dot \o T_kvq \o T_proj],
    [pattern |-> BlockN \o T_attn \o Dot \o T_out,
     replacement |-> LayersN \o T_self_attn \o Dot \o <<"\\2">> \o T_proj],
    [pattern |-> BlockN \o T_attn \o Dot \o T_sinks,
     replacement |-> LayersN \o T_self_attn \o Dot \o T_sinks],
    [pattern |-> BlockN \o T_attn \o Dot \o T_norm,
     replacement |-> LayersN \o T_input_layernorm \o Dot \o T_weight],
    [pattern |-> BlockN \o T_mlp \o Dot \o T_mlp1_weight,
     replacement |-> LayersN \o T_mlp \o Dot \o T_gate_up_proj \o Dot \o T_weight],
    [pattern |-> BlockN \o T_mlp \o Dot \o T_mlp1_bias,
     replacement |-> LayersN \o T_mlp \o Dot \o T_gate_up_proj \o Dot \o T_bias],
    [pattern |-> BlockN \o T_mlp \o Dot \o T_mlp2_weight,
     replacement |-> LayersN \o T_mlp \o Dot \o T_down_proj \o Dot \o T_weight],
    [pattern |-> BlockN \o T_mlp \o Dot \o T_mlp2_bias,
     replacement |-> LayersN \o T_mlp \o Dot \o T_down_proj \o Dot \o T_bias],
    [pattern |-> BlockN \o T_mlp \o Dot \o T_norm,
     replacement |-> LayersN \o T_post_attention_layernorm \o Dot \o T_weight],
    [pattern |-> BlockN \o T_mlp \o Dot \o T_gate,
     replacement |-> LayersN \o T_mlp \o Dot \o T_router \o Dot \o T_weight]
>>

(* --------------------- regular expressions (re) ----------------------- *)
\* number of capture groups of a pattern
GroupCount(pattern) ==
    Cardinality({i \in DOMAIN pattern : pattern[i] \in {DigitGroup, KvqGroup}})

\* The matches of pattern[k..] at position i of text: pairs <<end, group>>,
\* end the first position after the match, group the text of group 1.
RECURSIVE MatchFrom(_, _, _, _)
MatchFrom(pattern, k, text, i) ==
    IF k > Len(pattern) THEN {<<i, <<>>>>}
    ELSE IF pattern[k] = DigitGroup THEN
        UNION {{<<m[1], SubSeq(text, i, i + n - 1)>> :
                    m \in MatchFrom(pattern, k + 1, text, i + n)} :
               n \in {n \in 1..(Len(text) - i + 1) :
                        \A j \in i..(i + n - 1) : text[j] \in Digits}}
    ELSE IF i > Len(text) THEN {}
    ELSE IF pattern[k] = KvqGroup THEN
        IF text[i] \in {"k", "v", "q"}
        THEN {<<m[1], <<text[i]>>>> : m \in MatchFrom(pattern, k + 1, text, i + 1)}
        ELSE {}
    ELSE IF pattern[k] = AnyChar THEN
        IF text[i] # NL THEN MatchFrom(pattern, k + 1, text, i + 1) ELSE {}
    ELSE IF text[i] = pattern[k] THEN MatchFrom(pattern, k + 1, text, i + 1)
    ELSE {}

\* the match the backtracking matcher returns at position i: the greedy one
MatchAt(pattern, text, i) ==
    LET ms == MatchFrom(pattern, 1, text, i)
    IN CHOOSE m \in ms : \A m2 \in ms : Len(m2[2]) <= Len(m[2])

\* re.search(pattern, text) is not None
Search(pattern, text) ==
    \E i \in 1..Len(text) : MatchFrom(pattern, 1, text, i) # {}

\* whether every group reference of the template names a group of the pattern
TemplateValid(pattern, repl) ==
    \A i \in DOMAIN repl :
        /\ repl[i] = "\\1" => GroupCount(pattern) >= 1
        /\ repl[i] = "\\2" => GroupCount(pattern) >= 2

\* the template with its group reference filled in
RECURSIVE Expand(_, _)
Expand(repl, group) ==
    IF repl = <<>> THEN <<>>
    ELSE (IF Head(repl) = "\\1" THEN group ELSE <<Head(repl)>>)
         \o Expand(Tail(repl), group)

\* the text from position pos on with every match replaced, left to right
RECURSIVE SubFrom(_, _, _, _)
SubFrom(pattern, repl, text, pos) ==
    LET starts == {i \in pos..Len(text) : MatchFrom(pattern, 1, text, i) # {}}
    IN IF starts = {} THEN SubSeq(text, pos, Len(text))
       ELSE LET i == CHOOSE i \in starts : \A j \in starts : i <= j
                m == MatchAt(pattern, text, i)
            IN SubSeq(text, pos, i - 1) \o Expand(repl, m[2])
               \o SubFrom(pattern, repl, text, m[1])

\* re.sub(pattern, repl, text).  An invalid group reference raises: always
\* when the template is compiled before the search (eager), and otherwise
\* when a match has to be expanded.
ReSub(pattern, repl, text, eager) ==
    IF ~TemplateValid(pattern, repl) /\ (eager \/ Search(pattern, text))
    THEN ReError
    ELSE SubFrom(pattern, repl, text, 1)

(* ----------------------- str.join and str.split ----------------------- *)
RECURSIVE Join(_)
Join(keys) ==
    IF keys = <<>> THEN <<>>
    ELSE IF Len(keys) = 1 THEN keys[1]
    ELSE keys[1] \o <<NL>> \o Join(Tail(keys))

RECURSIVE Split(_)
Split(text) ==
    IF \A i \in DOMAIN text : text[i] # NL THEN <<text>>
    ELSE LET i == CHOOSE i \in DOMAIN text :
                      text[i] = NL /\ \A j \in 1..(i - 1) : text[j] # NL
         IN <<SubSeq(text, 1, i - 1)>> \o Split(SubSeq(text, i + 1, Len(text)))

(* ---------------------- dict, in insertion order ---------------------- *)
\* a dict is a sequence of [k, v] items with distinct keys
DictKeys(d) == [i \in DOMAIN d |-> d[i].k]
DictHas(d, key) == \E i \in DOMAIN d : d[i].k = key
DictGet(d, key) == d[CHOOSE i \in DOMAIN d : d[i].k = key].v
DictSet(d, key, value) ==
    IF DictHas(d, key)
    THEN [i \in DOMAIN d |-> IF d[i].k = key THEN [k |-> key, v |-> value] ELSE d[i]]
    ELSE Append(d, [k |-> key, v |-> value])
\* dict(zip(ks, vs))
RECURSIVE DictZip(_, _)
DictZip(ks, vs) ==
    IF ks = <<>> \/ vs = <<>> THEN <<>>
    ELSE LET rest == DictZip(Tail(ks), Tail(vs))
         IN IF DictHas(rest, Head(ks))
            THEN <<[k |-> Head(ks), v |-> DictGet(rest, Head(ks))]>>
                 \o SelectSeq(rest, LAMBDA it : it.k # Head(ks))
            ELSE <<[k |-> Head(ks), v |-> Head(vs)]>> \o rest

(* -------------------- convert_old_keys_to_new_keys -------------------- *)
\* the loop over the rules, from rule r on
RECURSIVE ApplyRules(_, _, _)
ApplyRules(text, r, eager) ==
    IF r > Len(ORIGINAL_TO_CONVERTED_KEY_MAPPING) \/ text = ReError THEN text
    ELSE LET rule == ORIGINAL_TO_CONVERTED_KEY_MAPPING[r]
             repl == IF rule.replacement = None THEN <<>> ELSE rule.replacement
         IN ApplyRules(ReSub(rule.pattern, repl, text, eager), r + 1, eager)

\* new_text after the loop over the rules, or ReError when re.sub raised
ConvertedText(state_dict_keys, eager) ==
    ApplyRules(Join(state_dict_keys), 1, eager)

\* the dict the function returns when new_text was computed
convert_old_keys_to_new_keys(state_dict_keys, new_text) ==
    DictZip(Split(Join(state_dict_keys)), Split(new_text))

(* ------------------------------ helpers ------------------------------- *)
\* word in text
Contains(text, word) ==
    \E i \in 1..(Len(text) - Len(word) + 1) : SubSeq(text, i, i + Len(word) - 1) = word

(* ------------------------- source checkpoints ------------------------- *)
Block0 == T_block \o Dot \o <<"0">> \o Dot
\* the parameter names a source checkpoint may hold, in checkpoint order
SourceNames == <<
    T_embedding \o Dot \o T_weight,
    T_unembedding \o Dot \o T_weight,
    T_norm \o Dot \o T_weight,
    T_rope \o Dot \o T_freqs,
    Block0 \o T_attn \o Dot \o T_qkv \o Dot \o T_weight,
    Block0 \o T_attn \o Dot \o T_out \o Dot \o T_weight,
    Block0 \o T_attn \o Dot \o T_sinks,
    Block0 \o T_attn \o Dot \o T_norm,
    Block0 \o T_mlp \o Dot \o T_mlp1_weight,
    Block0 \o T_mlp \o Dot \o T_mlp1_bias,
    Block0 \o T_mlp \o Dot \o T_mlp2_weight,
    Block0 \o T_mlp \o Dot \o T_mlp2_bias,
    Block0 \o T_mlp \o Dot \o T_norm,
    Block0 \o T_mlp \o Dot \o T_gate,
    T_block \o Dot \o <<"1", "2">> \o Dot \o T_attn \o Dot \o T_qkv \o Dot \o T_weight,
    T_language_model \o Dot \o T_q_proj \o Dot \o T_weight,
    Block0 \o T_attn \o Dot \o T_norm \o Dot \o T_weight
>>

\* whether SourceNames[u] names a fused projection
Fused(u) == Contains(SourceNames[u], T_qkv) \/ Contains(SourceNames[u], T_proj)

\* the tensor stored under SourceNames[u], as its row along the last axis: a
\* fused projection has last-axis size n, any other tensor last-axis size 1
Tensor(u, n) == [j \in 1..(IF Fused(u) THEN n ELSE 1) |-> 100 * u + j]

\* the increasing sequence of the members of a set of numbers
RECURSIVE SortedSeq(_)
SortedSeq(S) ==
    IF S = {} THEN <<>>
    ELSE LET m == CHOOSE m \in S : \A x \in S : m <= x
         IN <<m>> \o SortedSeq(S \ {m})

\* the checkpoints: at most MaxKeys tensors in at most MaxShards shard files,
\* every shard a dict of consecutive names, no shard empty
ShardOf(us, a, j, n) ==
    LET mine == SelectSeq(us, LAMBDA u : a[u] = j)
    IN [i \in DOMAIN mine |-> [k |-> SourceNames[mine[i]], v |-> Tensor(mine[i], n)]]

Checkpoints(names) ==
    {<<>>} \cup
    UNION {UNION {{[j \in 1..a[SortedSeq(U)[Cardinality(U)]] |-> ShardOf(SortedSeq(U), a, j, n)] :
                        a \in {a \in [U -> 1..MaxShards] :
                                 LET us == SortedSeq(U)
                                 IN /\ a[us[1]] = 1
                                    /\ \A i \in 1..(Len(us) - 1) :
                                          a[us[i + 1]] \in {a[us[i]], a[us[i]] + 1}}} :
                   n \in 1..MaxLast} :
           U \in {U \in SUBSET names : Cardinality(U) \in 1..MaxKeys}}

\* the names the runs of main draw their checkpoints from: one that is
\* renamed, the dropped one, the fused one, the one whose rule refers to
\* group 2, and one the key loop splits
MainNames ==
    {u \in DOMAIN SourceNames :
        SourceNames[u] \in {T_embedding \o Dot \o T_weight,
                            T_rope \o Dot \o T_freqs,
                            Block0 \o T_attn \o Dot \o T_qkv \o Dot \o T_weight,
                            Block0 \o T_attn \o Dot \o T_out \o Dot \o T_weight,
                            T_language_model \o Dot \o T_q_proj \o Dot \o T_weight}}

\* the pattern "(k|v|q)_proj.weight" of the key loop
KvqProjWeight == <<KvqGroup>> \o T_proj \o <<AnyChar>> \o T_weight

\* Chunk with the pieces handed back last piece first
ChunkReversed(tensor, chunks) ==
    LET n == Len(tensor)
        size == (n + chunks - 1) \div chunks
        count == (n + size - 1) \div size
    IN [c \in 1..count |->
            SubSeq(tensor, (count - c) * size + 1,
                   IF (count - c + 1) * size < n THEN (count - c + 1) * size ELSE n)]

\* tensor.chunk(chunks, dim=-1): pieces of ceil(n / chunks) elements, the last
\* one shorter, as many as the row gives (fewer than chunks when it is short)
Chunk(tensor, chunks) ==
    LET n == Len(tensor)
        size == (n + chunks - 1) \div chunks
        count == (n + size - 1) \div size
    IN [c \in 1..count |->
            SubSeq(tensor, (c - 1) * size + 1, IF c * size < n THEN c * size ELSE n)]

\* the parameter names the constructed target model may expect, given the
\* names the key loop produced: exactly those, one of them less, one more
ExtraParam == T_lm_head \o Dot \o T_bias
TargetParamChoices(names) ==
    {names, names \cup {ExtraParam}} \cup {names \ {x} : x \in names}

Range(seq) == {seq[j] : j \in DOMAIN seq}

(* ------------------------------- state -------------------------------- *)
VARIABLES
    pc,          \* the statement main is at
    args,        \* the parsed command line
    fs,          \* the two directories
    loaded,      \* write_model: the list of loaded shard dicts
    all_keys,    \* write_model: list(loaded[0].keys())
    new_keys,    \* write_model: the remapping, old name -> new name
    state_dict,  \* write_model: the remapped tensors
    i,           \* the key loop's position in all_keys
    model,       \* write_model: the target model
    steps,       \* the steps completed so far, in order
    mpc,              \* Qwen2MoeNaiveMoe.forward: the statement it is at
    moe,              \* self.num_experts, self.top_k, self.norm_topk_prob
    router_logits,    \* the argument routing_weights, one row per input vector
    routing_weights,  \* the local routing_weights, one row per input vector
    selected_experts, \* per input vector, the indices torch.topk returned
    final_hidden_states, \* per input vector, the terms index_add_ has added
    expert_hit,       \* the experts the loop has still to visit
    applied,          \* the expert_layer calls made so far, in order
    bpc,              \* the MoE block's forward: the statement it is at
    block,            \* the block's class and the shape of its input
    out,              \* the block's final_hidden_states / out
    raised,           \* the exception that ended the block's forward
    router_top_value, \* OpenaiMLP.forward: the values torch.topk returned
    router_indices,   \* OpenaiMLP.forward: the indices torch.topk returned
    router_scores     \* OpenaiMLP.forward: one row per expert

conv_vars == <<pc, args, fs, loaded, all_keys, new_keys, state_dict, i, model, steps>>
naive_vars == <<mpc, moe, router_logits, routing_weights, selected_experts>>
dispatch_vars == <<final_hidden_states, expert_hit, applied>>
block_vars == <<bpc, block, out, raised>>
openai_vars == <<router_top_value, router_indices, router_scores>>
moe_vars == <<naive_vars, dispatch_vars, block_vars, openai_vars>>
vars == <<conv_vars, moe_vars>>

\* Qwen2MoeNaiveMoe.forward has not reached its loop
DispatchIdle ==
    /\ final_hidden_states = <<>>
    /\ expert_hit = <<>>
    /\ applied = <<>>

NoTensor == [shape |-> <<>>, rows |-> <<>>]

\* no MoE block's forward is under way
BlockIdle ==
    /\ bpc = "idle"
    /\ block = [class |-> "none", shape |-> <<>>]
    /\ out = NoTensor
    /\ raised = "none"
    /\ router_top_value = <<>>
    /\ router_indices = <<>>
    /\ router_scores = <<>>

\* no forward pass is under way
MoeIdle ==
    /\ mpc = "idle"
    /\ moe = [num_experts |-> 0, top_k |-> 0, norm_topk_prob |-> FALSE]
    /\ router_logits = <<>>
    /\ routing_weights = <<>>
    /\ selected_experts = <<>>
    /\ DispatchIdle
    /\ BlockIdle

NoModel == [params |-> {}, tensors |-> <<>>]
EmptyDir == [shards |-> <<>>, files |-> {}, saved |-> <<>>]

InputFiles == {"config.json", "tokenizer.model", "params.json"}

Init ==
    /\ pc = "makedirs"
    /\ args \in [input_dir : {"input_dir"},
                 output_dir : {"input_dir", "output_dir"},
                 instruct : BOOLEAN]
    /\ \E ckpt \in Checkpoints(MainNames) :
          fs = [input_dir |-> [shards |-> ckpt, files |-> InputFiles, saved |-> <<>>],
                output_dir |-> EmptyDir]
    /\ loaded = <<>>
    /\ all_keys = <<>>
    /\ new_keys = <<>>
    /\ state_dict = <<>>
    /\ i = 1
    /\ model = NoModel
    /\ steps = <<>>
    /\ MoeIdle

\* Raise with the exception caught around write_model: main goes on with the
\* tokenizer
RaiseCaught ==
    /\ pc' = "tokenizer"
    /\ steps' = Append(steps, "raise")
    /\ UNCHANGED moe_vars
    /\ UNCHANGED <<args, fs, loaded, all_keys, new_keys, state_dict, i, model>>

\* an exception leaves the function; nothing in main or below catches it
Raise ==
    /\ pc' = "aborted"
    /\ steps' = Append(steps, "raise")
    /\ UNCHANGED moe_vars
    /\ UNCHANGED <<args, fs, loaded, all_keys, new_keys, state_dict, i, model>>

\* the statement completes and control moves on
Goto(step, next) ==
    /\ pc' = next
    /\ steps' = Append(steps, step)
    /\ UNCHANGED moe_vars

(* ---------------------------- write_model ----------------------------- *)
\* os.makedirs(model_path, exist_ok=True)
MakeDirs ==
    /\ pc = "makedirs"
    /\ \/ Goto("makedirs", "config")
          /\ UNCHANGED <<args, fs, loaded, all_keys, new_keys, state_dict, i, model>>
       \/ Raise

\* OpenaiConfig.from_pretrained(input_base_path)
LoadConfig ==
    /\ pc = "config"
    /\ \/ /\ "config.json" \in fs[args.input_dir].files
          /\ Goto("config", "load")
          /\ UNCHANGED <<args, fs, loaded, all_keys, new_keys, state_dict, i, model>>
       \/ Raise

\* loaded = [safe_load(file for file in tqdm(os.listdir(model_path), ...)
\*                     if file.endswith(".safetensors"))]
\* As written the line raises (tqdm is the module, safe_load is handed a
\* generator).  The other branch follows the data the line names: the shard
\* files of model_path, one safe_load, a list of one dict.
LoadShards ==
    /\ pc = "load"
    /\ \/ \E f \in DOMAIN fs[args.output_dir].shards :
            /\ loaded' = <<fs[args.output_dir].shards[f]>>
            /\ Goto("load", "remap")
            /\ UNCHANGED <<args, fs, all_keys, new_keys, state_dict, i, model>>
       \/ Raise

\* all_keys = list(loaded[0].keys()); new_keys = convert_old_keys_to_new_keys(all_keys)
Remap ==
    /\ pc = "remap"
    /\ \E eager \in BOOLEAN :
          LET keys == DictKeys(loaded[1])
              new_text == ConvertedText(keys, eager)
          IN IF new_text = ReError THEN Raise
             ELSE /\ all_keys' = keys
                  /\ new_keys' = convert_old_keys_to_new_keys(keys, new_text)
                  /\ i' = 1
                  /\ Goto("remap", IF keys = <<>> THEN "release" ELSE "keyloop")
                  /\ UNCHANGED <<args, fs, loaded, state_dict, model>>

\* one iteration of "for key in all_keys"
KeyLoop ==
    /\ pc = "keyloop"
    /\ LET key == all_keys[i]
           new_key == IF DictHas(new_keys, key) THEN DictGet(new_keys, key) ELSE key
           tensor == DictGet(loaded[1], key)
           next == IF i = Len(all_keys) THEN "release" ELSE "keyloop"
       IN IF Search(KvqProjWeight, new_key) /\ Contains(new_key, T_language_model)
          THEN LET parts == Chunk(tensor, 3)
                   q_key == SubFrom(KvqProjWeight, T_q_proj \o Dot \o T_weight, new_key, 1)
                   k_key == SubFrom(KvqProjWeight, T_k_proj \o Dot \o T_weight, new_key, 1)
                   v_key == SubFrom(KvqProjWeight, T_v_proj \o Dot \o T_weight, new_key, 1)
               IN IF Len(parts) # 3 THEN Raise
                  ELSE /\ state_dict' = DictSet(DictSet(DictSet(state_dict,
                                            q_key, parts[1]), k_key, parts[2]), v_key, parts[3])
                       /\ i' = i + 1
                       /\ Goto("split", next)
                       /\ UNCHANGED <<args, fs, loaded, all_keys, new_keys, model>>
          ELSE /\ state_dict' = DictSet(state_dict, new_key, tensor)
               /\ i' = i + 1
               /\ Goto("store", next)
               /\ UNCHANGED <<args, fs, loaded, all_keys, new_keys, model>>

\* del loaded; gc.collect()
Release ==
    /\ pc = "release"
    /\ loaded' = <<>>
    /\ Goto("release", "construct")
    /\ UNCHANGED <<args, fs, all_keys, new_keys, state_dict, i, model>>

\* with torch.device("meta"): model = OpenaiForCausalLM(config)
Construct ==
    /\ pc = "construct"
    /\ \/ \E params \in TargetParamChoices(Range(DictKeys(state_dict))) :
            /\ model' = [params |-> params, tensors |-> <<>>]
            /\ Goto("construct", "bind")
            /\ UNCHANGED <<args, fs, loaded, all_keys, new_keys, state_dict, i>>
       \/ Raise

\* Bind with strict=False: names that do not match are passed over
BindNotStrict ==
    /\ pc = "bind"
    /\ model' = [model EXCEPT !.tensors = state_dict]
    /\ Goto("bind", "save")
    /\ UNCHANGED <<args, fs, loaded, all_keys, new_keys, state_dict, i>>

\* model.load_state_dict(state_dict, strict=True, assign=True)
Bind ==
    /\ pc = "bind"
    /\ \/ /\ model.params = Range(DictKeys(state_dict))
          /\ model' = [model EXCEPT !.tensors = state_dict]
          /\ Goto("bind", "save")
          /\ UNCHANGED <<args, fs, loaded, all_keys, new_keys, state_dict, i>>
       \/ Raise

\* Save with the call to save_pretrained left out
SaveSkipped ==
    /\ pc = "save"
    /\ pc' = "release_target"
    /\ UNCHANGED <<args, fs, loaded, all_keys, new_keys, state_dict, i, model, steps>>
    /\ UNCHANGED moe_vars

\* model.save_pretrained(model_path, safe_serialization=safe_serialization)
Save ==
    /\ pc = "save"
    /\ \/ /\ fs' = [fs EXCEPT ![args.output_dir] =
                        [@ EXCEPT !.saved = model.tensors,
                                  !.files = @ \cup {"config.json", "model.safetensors"}]]
          /\ Goto("save", "release_target")
          /\ UNCHANGED <<args, loaded, all_keys, new_keys, state_dict, i, model>>
       \/ Raise

\* del state_dict, model; gc.collect()
ReleaseTarget ==
    /\ pc = "release_target"
    /\ state_dict' = <<>>
    /\ model' = NoModel
    /\ Goto("release_target", "reload")
    /\ UNCHANGED <<args, fs, loaded, all_keys, new_keys, i>>

\* OpenaiForCausalLM.from_pretrained(model_path, ...)
Reload ==
    /\ pc = "reload"
    /\ \/ /\ "model.safetensors" \in fs[args.output_dir].files
          /\ Goto("reload", "generation_config")
          /\ UNCHANGED <<args, fs, loaded, all_keys, new_keys, state_dict, i, model>>
       \/ Raise

\* if instruct: GenerationConfig(...).save_pretrained(model_path)
SaveGenerationConfig ==
    /\ pc = "generation_config"
    /\ \/ /\ args.instruct
          /\ fs' = [fs EXCEPT ![args.output_dir].files = @ \cup {"generation_config.json"}]
          /\ Goto("generation_config", "tokenizer")
          /\ UNCHANGED <<args, loaded, all_keys, new_keys, state_dict, i, model>>
       \/ /\ ~args.instruct
          /\ Goto("write_model", "tokenizer")
          /\ UNCHANGED <<args, fs, loaded, all_keys, new_keys, state_dict, i, model>>
       \/ args.instruct /\ Raise

(* --------------------------- write_tokenizer -------------------------- *)
\* converter = MllamaConverter(vocab_file=tokenizer_path, ...)
BuildTokenizer ==
    /\ pc = "tokenizer"
    /\ \/ /\ "tokenizer.model" \in fs[args.input_dir].files
          /\ Goto("tokenizer", "save_tokenizer")
          /\ UNCHANGED <<args, fs, loaded, all_keys, new_keys, state_dict, i, model>>
       \/ Raise

\* tokenizer.save_pretrained(save_dir)
SaveTokenizer ==
    /\ pc = "save_tokenizer"
    /\ \/ /\ fs' = [fs EXCEPT ![args.output_dir].files = @ \cup {"tokenizer.json"}]
          /\ Goto("save_tokenizer", "chat_template")
          /\ UNCHANGED <<args, loaded, all_keys, new_keys, state_dict, i, model>>
       \/ Raise

\* if instruct: json.dump({"chat_template": chat_template}, f, indent=2)
SaveChatTemplate ==
    /\ pc = "chat_template"
    /\ \/ /\ args.instruct
          /\ fs' = [fs EXCEPT ![args.output_dir].files = @ \cup {"chat_template.json"}]
          /\ Goto("chat_template", "read_params")
          /\ UNCHANGED <<args, loaded, all_keys, new_keys, state_dict, i, model>>
       \/ /\ ~args.instruct
          /\ Goto("write_tokenizer", "read_params")
          /\ UNCHANGED <<args, fs, loaded, all_keys, new_keys, state_dict, i, model>>
       \/ args.instruct /\ Raise

(* ------------------------ write_image_processor ----------------------- *)
\* params = json.load(f); params["vision_chunk_size"]; params["vision_max_num_chunks"]
ReadParams ==
    /\ pc = "read_params"
    /\ \/ /\ "params.json" \in fs[args.input_dir].files
          /\ Goto("read_params", "image_processor")
          /\ UNCHANGED <<args, fs, loaded, all_keys, new_keys, state_dict, i, model>>
       \/ Raise

\* image_processor = MllamaImageProcessor(...): the name is bound nowhere in
\* the file, the call raises NameError
BuildImageProcessor ==
    /\ pc = "image_processor"
    /\ Raise

Next ==
    \/ MakeDirs
    \/ LoadConfig
    \/ LoadShards
    \/ Remap
    \/ KeyLoop
    \/ Release
    \/ Construct
    \/ Bind
    \/ Save
    \/ ReleaseTarget
    \/ Reload
    \/ SaveGenerationConfig
    \/ BuildTokenizer
    \/ SaveTokenizer
    \/ SaveChatTemplate
    \/ ReadParams
    \/ BuildImageProcessor

Spec == Init /\ [][Next]_vars

(* ------- the key remapper alone: lines 108-124 on any loaded dict ------ *)
\* write_model at line 108, having loaded one shard of any names
InitKeys ==
    /\ pc = "remap"
    /\ args = [input_dir |-> "input_dir", output_dir |-> "input_dir", instruct |-> FALSE]
    /\ \E ckpt \in {c \in Checkpoints(DOMAIN SourceNames) : Len(c) = 1} :
          /\ fs = [input_dir |-> [shards |-> ckpt, files |-> InputFiles, saved |-> <<>>],
                   output_dir |-> EmptyDir]
          /\ loaded = ckpt
    /\ all_keys = <<>>
    /\ new_keys = <<>>
    /\ state_dict = <<>>
    /\ i = 1
    /\ model = NoModel
    /\ steps = <<"makedirs", "config", "load">>
    /\ MoeIdle

NextKeys ==
    \/ Remap
    \/ KeyLoop

SpecKeys == InitKeys /\ [][NextKeys]_vars
(* ----------------------- Qwen2MoeNaiveMoe.forward --------------------- *)
\* A weight is a fraction <<numerator, denominator>>, denominator positive.
\* Fractions are kept in lowest terms.
RECURSIVE GCD(_, _)
GCD(a, b) == IF b = 0 THEN a ELSE GCD(b, a % b)
Reduce(n, d) == <<n \div GCD(n, d), d \div GCD(n, d)>>
RLeq(a, b) == a[1] * b[2] <= b[1] * a[2]
RAdd(a, b) == Reduce(a[1] * b[2] + b[1] * a[2], a[2] * b[2])
RDiv(a, b) == Reduce(a[1] * b[2], a[2] * b[1])
RECURSIVE RSum(_)
RSum(row) == IF row = <<>> THEN <<0, 1>> ELSE RAdd(Head(row), RSum(Tail(row)))

\* the configurations and the router logits of the forward passes examined
ExpertCounts == {2, 3}
LogitValues == {-1, 1}

RECURSIVE Pow2(_)
Pow2(n) == IF n = 0 THEN 1 ELSE 2 * Pow2(n - 1)

\* F.softmax over one row; exp(x) is taken as 2^x (logits in units of ln 2),
\* numerator and denominator scaled by 2^-min
Softmax(row) ==
    LET lo == CHOOSE x \in Range(row) : \A y \in Range(row) : x <= y
        total == RSum([e \in DOMAIN row |-> <<Pow2(row[e] - lo), 1>>])
    IN [e \in DOMAIN row |-> RDiv(<<Pow2(row[e] - lo), 1>>, total)]

\* TopKSets taking the k smallest entries (largest=False)
TopKSetsSmallest(row, k) ==
    {S \in SUBSET DOMAIN row :
        /\ Cardinality(S) = k
        /\ \A a \in S : \A b \in DOMAIN row \ S : RLeq(row[a], row[b])}

\* the index sets torch.topk may return for one row: k entries, none smaller
\* than an entry left out (which of several equal entries is taken is the
\* library's choice)
TopKSets(row, k) ==
    {S \in SUBSET DOMAIN row :
        /\ Cardinality(S) = k
        /\ \A a \in S : \A b \in DOMAIN row \ S : RLeq(row[b], row[a])}

\* the indices of S, largest weight first (equal weights by index)
RECURSIVE Descending(_, _)
Descending(row, S) ==
    IF S = {} THEN <<>>
    ELSE LET a == CHOOSE a \in S : \A b \in S :
                      \/ ~RLeq(row[a], row[b])
                      \/ (RLeq(row[b], row[a]) /\ a <= b)
         IN <<a>> \o Descending(row, S \ {a})

\* NormalizeRow with the division left out
NormalizeRowSkipped(row) == row

\* routing_weights /= routing_weights.sum(dim=-1, keepdim=True), one row
NormalizeRow(row) == [j \in DOMAIN row |-> RDiv(row[j], RSum(row))]

\* .to(hidden_states.dtype): the nearest multiple of 1 / Grid
Cast(w) == Reduce((2 * w[1] * Grid + w[2]) \div (2 * w[2]), Grid)

MoeInit ==
    /\ mpc = "softmax"
    /\ \E n \in ExpertCounts :
          /\ moe \in [num_experts : {n}, top_k : 1..n, norm_topk_prob : BOOLEAN]
          /\ \E tokens \in 1..MaxTokens :
                router_logits \in [1..tokens -> [1..n -> LogitValues]]
    /\ routing_weights = <<>>
    /\ selected_experts = <<>>
    /\ DispatchIdle
    /\ BlockIdle

\* routing_weights = F.softmax(routing_weights, dim=1, dtype=torch.float)
SoftmaxStep ==
    /\ mpc = "softmax"
    /\ routing_weights' = [t \in DOMAIN router_logits |-> Softmax(router_logits[t])]
    /\ mpc' = "topk"
    /\ UNCHANGED <<moe, router_logits, selected_experts, conv_vars, dispatch_vars, block_vars, openai_vars>>

\* routing_weights, selected_experts = torch.topk(routing_weights, self.top_k, dim=-1)
TopKStep ==
    /\ mpc = "topk"
    /\ \E sets \in [DOMAIN routing_weights -> SUBSET (1..moe.num_experts)] :
          /\ \A t \in DOMAIN routing_weights :
                sets[t] \in TopKSets(routing_weights[t], moe.top_k)
          /\ selected_experts' =
                [t \in DOMAIN routing_weights |-> Descending(routing_weights[t], sets[t])]
          /\ routing_weights' =
                [t \in DOMAIN routing_weights |->
                    [j \in 1..moe.top_k |->
                        routing_weights[t][Descending(routing_weights[t], sets[t])[j]]]]
    /\ mpc' = "normalize"
    /\ UNCHANGED <<moe, router_logits, conv_vars, dispatch_vars, block_vars, openai_vars>>

\* if self.norm_topk_prob: routing_weights /= routing_weights.sum(dim=-1, keepdim=True)
NormalizeStep ==
    /\ mpc = "normalize"
    /\ routing_weights' =
          IF moe.norm_topk_prob
          THEN [t \in DOMAIN routing_weights |-> NormalizeRow(routing_weights[t])]
          ELSE routing_weights
    /\ mpc' = "cast"
    /\ UNCHANGED <<moe, router_logits, selected_experts, conv_vars, dispatch_vars, block_vars, openai_vars>>

\* routing_weights = routing_weights.to(hidden_states.dtype)
CastStep ==
    /\ mpc = "cast"
    /\ routing_weights' =
          [t \in DOMAIN routing_weights |->
              [j \in DOMAIN routing_weights[t] |-> Cast(routing_weights[t][j])]]
    /\ mpc' = "dispatch"
    /\ UNCHANGED <<moe, router_logits, selected_experts, conv_vars, dispatch_vars, block_vars, openai_vars>>

\* expert_mask[expert_idx].squeeze(0) of
\* one_hot(selected_experts, num_classes=self.num_experts).permute(2, 1, 0):
\* one row per top-k slot, one column per input vector
ExpertMask(expert_idx) ==
    [idx \in 1..moe.top_k |->
        [top_x \in DOMAIN selected_experts |-> selected_experts[top_x][idx] = expert_idx]]

\* torch.where(mask): the <<idx, top_x>> of the true entries, row by row
RECURSIVE Where(_, _)
Where(mask, row) ==
    IF row > Len(mask) THEN <<>>
    ELSE LET cols == SortedSeq({c \in DOMAIN mask[row] : mask[row][c]})
         IN [r \in DOMAIN cols |-> <<row, cols[r]>>] \o Where(mask, row + 1)

\* torch.greater(expert_mask.sum(dim=(-1, -2)), 0).nonzero()
ExpertHit ==
    SortedSeq({e \in 1..moe.num_experts : Where(ExpertMask(e), 1) # <<>>})

\* IndexAdd with index_copy_ in its place: a row is overwritten, not added to
RECURSIVE IndexAddOverwrites(_, _, _)
IndexAddOverwrites(self, index, source) ==
    IF index = <<>> THEN self
    ELSE IndexAddOverwrites([self EXCEPT ![Head(index)] = <<Head(source)>>],
                            Tail(index), Tail(source))

\* self.index_add_(0, index, source): row r of source is added to row index[r]
RECURSIVE IndexAdd(_, _, _)
IndexAdd(self, index, source) ==
    IF index = <<>> THEN self
    ELSE IndexAdd([self EXCEPT ![Head(index)] = Append(@, Head(source))],
                  Tail(index), Tail(source))

\* final_hidden_states = torch.zeros_like(hidden_states); expert_mask; expert_hit
PrepareStep ==
    /\ mpc = "dispatch"
    /\ final_hidden_states' = [t \in DOMAIN selected_experts |-> <<>>]
    /\ expert_hit' = ExpertHit
    /\ applied' = <<>>
    /\ mpc' = "loop"
    /\ UNCHANGED <<moe, router_logits, routing_weights, selected_experts>>
    /\ UNCHANGED <<conv_vars, block_vars, openai_vars>>

\* one iteration of "for expert_idx in expert_hit"
LoopStep ==
    /\ mpc = "loop"
    /\ expert_hit # <<>>
    /\ LET expert_idx == Head(expert_hit)
           pairs == Where(ExpertMask(expert_idx), 1)
           idx == [r \in DOMAIN pairs |-> pairs[r][1]]
           top_x == [r \in DOMAIN pairs |-> pairs[r][2]]
           current_state == top_x
           current_hidden_states ==
               [r \in DOMAIN pairs |->
                   [expert |-> expert_idx,
                    vector |-> current_state[r],
                    weight |-> routing_weights[top_x[r]][idx[r]]]]
       IN /\ final_hidden_states' =
                IndexAdd(final_hidden_states, top_x, current_hidden_states)
          /\ applied' = Append(applied, [expert |-> expert_idx, vectors |-> current_state])
    /\ expert_hit' = Tail(expert_hit)
    /\ UNCHANGED <<mpc, moe, router_logits, routing_weights, selected_experts>>
    /\ UNCHANGED <<conv_vars, block_vars, openai_vars>>

\* return final_hidden_states
ReturnStep ==
    /\ mpc = "loop"
    /\ expert_hit = <<>>
    /\ mpc' = "return"
    /\ UNCHANGED <<moe, router_logits, routing_weights, selected_experts>>
    /\ UNCHANGED <<conv_vars, dispatch_vars, block_vars, openai_vars>>

ConvIdle ==
    /\ pc = "idle"
    /\ args = [input_dir |-> "input_dir", output_dir |-> "output_dir", instruct |-> FALSE]
    /\ fs = [input_dir |-> EmptyDir, output_dir |-> EmptyDir]
    /\ loaded = <<>>
    /\ all_keys = <<>>
    /\ new_keys = <<>>
    /\ state_dict = <<>>
    /\ i = 1
    /\ model = NoModel
    /\ steps = <<>>

InitMoe == ConvIdle /\ MoeInit

(* ----------- Qwen2MoeSparseMoeBlock.forward, OpenaiMLP.forward --------- *)
\* config.hidden_size of the blocks examined
HiddenSizes == {2}

\* a tensor is its shape and, for every index into the dimensions before the
\* last, in row-major order, what it holds there: the routed terms
\* [expert, vector, weight] and the vectors whose shared-expert output is in it
RECURSIVE Numel(_)
Numel(shape) == IF shape = <<>> THEN 1 ELSE Head(shape) * Numel(Tail(shape))

Lead(shape) == SubSeq(shape, 1, Len(shape) - 1)

\* the index (from 1, per dimension) of the p-th entry (from 0), and back
RECURSIVE Unravel(_, _)
Unravel(p, shape) ==
    IF shape = <<>> THEN <<>>
    ELSE <<(p \div Numel(Tail(shape))) + 1>> \o Unravel(p % Numel(Tail(shape)), Tail(shape))

RECURSIVE Ravel(_, _)
Ravel(ix, shape) ==
    IF shape = <<>> THEN 0
    ELSE (Head(ix) - 1) * Numel(Tail(shape)) + Ravel(Tail(ix), Tail(shape))

\* what a shape error leaves in place of a tensor
ShapeError == [shape |-> <<0>>, rows |-> <<>>]

\* broadcasting: shapes are aligned at the last dimension and padded with 1
PadLeft(shape, n) ==
    [k \in 1..n |-> IF k <= n - Len(shape) THEN 1 ELSE shape[k - (n - Len(shape))]]

\* a + b
Add(a, b) ==
    LET n == IF Len(a.shape) >= Len(b.shape) THEN Len(a.shape) ELSE Len(b.shape)
        pa == PadLeft(a.shape, n)
        pb == PadLeft(b.shape, n)
        shape == [k \in 1..n |-> IF pa[k] >= pb[k] THEN pa[k] ELSE pb[k]]
        At(ix, ps) == Ravel([k \in 1..(n - 1) |-> IF ps[k] = 1 THEN 1 ELSE ix[k]],
                            Lead(ps)) + 1
    IN IF \E k \in 1..n : pa[k] # pb[k] /\ pa[k] # 1 /\ pb[k] # 1
       THEN ShapeError
       ELSE [shape |-> shape,
             rows |-> [p \in 1..Numel(Lead(shape)) |->
                          LET ix == Unravel(p - 1, Lead(shape))
                              x == a.rows[At(ix, pa)]
                              y == b.rows[At(ix, pb)]
                          IN [routed |-> x.routed \o y.routed,
                              shared |-> x.shared \o y.shared]]]

\* t.reshape(shape), t.view(shape); the last dimension is kept in every use
Reshape(t, shape) ==
    IF Numel(t.shape) = Numel(shape)
    THEN [shape |-> shape, rows |-> t.rows]
    ELSE ShapeError

Tokens == Numel(Lead(block.shape))
HiddenDim == block.shape[Len(block.shape)]

BlockInit ==
    /\ \E b \in 1..MaxTokens, sl \in 1..MaxTokens, h \in HiddenSizes :
          /\ b * sl <= MaxTokens
          /\ \/ /\ bpc = "gate"
                /\ block = [class |-> "Qwen2MoeSparseMoeBlock", shape |-> <<b, sl, h>>]
                /\ \E n \in ExpertCounts :
                      moe \in [num_experts : {n}, top_k : 1..n, norm_topk_prob : BOOLEAN]
             \/ /\ bpc = "router"
                /\ block = [class |-> "OpenaiMLP", shape |-> <<b, sl, h>>]
                /\ \E n \in ExpertCounts :
                      moe \in [num_experts : {n}, top_k : 1..n, norm_topk_prob : {FALSE}]
    /\ mpc = "idle"
    /\ router_logits = <<>>
    /\ routing_weights = <<>>
    /\ selected_experts = <<>>
    /\ DispatchIdle
    /\ out = NoTensor
    /\ raised = "none"
    /\ router_top_value = <<>>
    /\ router_indices = <<>>
    /\ router_scores = <<>>

\* the exception leaves forward
BlockRaise(error) ==
    /\ bpc' = "raised"
    /\ raised' = error
    /\ UNCHANGED <<block, out>>

\* hidden_states = hidden_states.view(-1, hidden_dim)
\* router_logits = self.gate(hidden_states)
QwenGate ==
    /\ bpc = "gate"
    /\ router_logits' \in [1..Tokens -> [1..moe.num_experts -> LogitValues]]
    /\ bpc' = "experts"
    /\ mpc' = "softmax"
    /\ UNCHANGED <<moe, routing_weights, selected_experts, block, out, raised>>
    /\ UNCHANGED <<conv_vars, dispatch_vars, openai_vars>>

\* final_hidden_states = self.experts(hidden_states, router_logits)
\*                           .reshape(batch_size, sequence_length, hidden_dim)
QwenExperts ==
    /\ bpc = "experts"
    /\ mpc = "return"
    /\ out' = Reshape([shape |-> <<Tokens, HiddenDim>>,
                       rows |-> [t \in 1..Tokens |->
                                    [routed |-> final_hidden_states[t], shared |-> <<>>]]],
                      block.shape)
    /\ bpc' = "shared_expert"
    /\ UNCHANGED <<block, raised>>
    /\ UNCHANGED <<conv_vars, naive_vars, dispatch_vars, openai_vars>>

\* shared_expert_output = self.shared_expert(hidden_states)
\* shared_expert_output = F.sigmoid(self.shared_expert_gate(hidden_states)) * shared_expert_output
\* final_hidden_states = final_hidden_states + shared_expert_output
QwenAddShared ==
    /\ bpc = "shared_expert"
    /\ block.class = "Qwen2MoeSparseMoeBlock"
    /\ LET shared_expert_output ==
               [shape |-> <<Tokens, HiddenDim>>,
                rows |-> [t \in 1..Tokens |-> [routed |-> <<>>, shared |-> <<t>>]]]
           sum == Add(out, shared_expert_output)
       IN IF sum = ShapeError
          THEN BlockRaise("RuntimeError")
          ELSE /\ out' = sum
               /\ bpc' = "reshape"
               /\ UNCHANGED <<block, raised>>
    /\ UNCHANGED <<conv_vars, naive_vars, dispatch_vars, openai_vars>>

\* final_hidden_states = final_hidden_states.reshape(batch_size, sequence_length, hidden_dim)
\* return final_hidden_states, router_logits
QwenReshape ==
    /\ bpc = "reshape"
    /\ IF Reshape(out, block.shape) = ShapeError
       THEN BlockRaise("RuntimeError")
       ELSE /\ out' = Reshape(out, block.shape)
            /\ bpc' = "return"
            /\ UNCHANGED <<block, raised>>
    /\ UNCHANGED <<conv_vars, naive_vars, dispatch_vars, openai_vars>>

\* torch.sigmoid of a finite score; exp(x) is taken as 2^x
Sigmoid(x) ==
    IF x >= 0 THEN Reduce(Pow2(x), 1 + Pow2(x)) ELSE Reduce(1, 1 + Pow2(0 - x))

\* float("-inf")
NegInf == [inf |-> TRUE, v |-> 0]

\* hidden_states = hidden_states.reshape(-1, self.hidden_dim)
\* router_logits = self.router(hidden_states)
OpenaiRouter ==
    /\ bpc = "router"
    /\ router_logits' \in [1..Tokens -> [1..moe.num_experts -> LogitValues]]
    /\ bpc' = "topk"
    /\ UNCHANGED <<mpc, moe, routing_weights, selected_experts, block, out, raised>>
    /\ UNCHANGED <<conv_vars, dispatch_vars, openai_vars>>

\* router_top_value, router_indices = torch.topk(router_logits, self.top_k, dim=1)
OpenaiTopK ==
    /\ bpc = "topk"
    /\ \E sets \in [DOMAIN router_logits -> SUBSET (1..moe.num_experts)] :
          LET row(t) == [e \in DOMAIN router_logits[t] |-> <<router_logits[t][e], 1>>]
          IN /\ \A t \in DOMAIN router_logits : sets[t] \in TopKSets(row(t), moe.top_k)
             /\ router_indices' =
                   [t \in DOMAIN router_logits |-> Descending(row(t), sets[t])]
             /\ router_top_value' =
                   [t \in DOMAIN router_logits |->
                       [j \in 1..moe.top_k |->
                           router_logits[t][Descending(row(t), sets[t])[j]]]]
    /\ bpc' = "scatter"
    /\ UNCHANGED <<block, out, raised, router_scores>>
    /\ UNCHANGED <<conv_vars, naive_vars, dispatch_vars>>

\* router_scores = torch.full_like(router_logits, float("-inf"))
\*                     .scatter_(1, router_indices, router_top_value).transpose(0, 1)
OpenaiScatter ==
    /\ bpc = "scatter"
    /\ router_scores' =
          [e \in 1..moe.num_experts |->
              [t \in DOMAIN router_logits |->
                  IF \E j \in 1..moe.top_k : router_indices[t][j] = e
                  THEN LET j == CHOOSE j \in 1..moe.top_k : router_indices[t][j] = e
                       IN [inf |-> FALSE, v |-> router_top_value[t][j]]
                  ELSE NegInf]]
    /\ bpc' = "sigmoid"
    /\ UNCHANGED <<block, out, raised, router_top_value, router_indices>>
    /\ UNCHANGED <<conv_vars, naive_vars, dispatch_vars>>

\* router_scores = torch.sigmoid(router_scores.float()).to(hidden_states.dtype)
OpenaiSigmoid ==
    /\ bpc = "sigmoid"
    /\ router_scores' =
          [e \in DOMAIN router_scores |->
              [t \in DOMAIN router_scores[e] |->
                  IF router_scores[e][t].inf THEN <<0, 1>>
                  ELSE Cast(Sigmoid(router_scores[e][t].v))]]
    /\ bpc' = "routed"
    /\ UNCHANGED <<block, out, raised, router_top_value, router_indices>>
    /\ UNCHANGED <<conv_vars, naive_vars, dispatch_vars>>

\* routed_in = hidden_states.repeat(self.num_experts, 1)
\* routed_in = routed_in * router_scores.reshape(-1, 1)
\* routed_out = self.experts(routed_in)
OpenaiExpertsStep ==
    /\ bpc = "routed"
    /\ out' = [shape |-> <<moe.num_experts * Tokens, HiddenDim>>,
               rows |-> [p \in 1..(moe.num_experts * Tokens) |->
                            LET e == ((p - 1) \div Tokens) + 1
                                t == ((p - 1) % Tokens) + 1
                            IN [routed |-> <<[expert |-> e, vector |-> t,
                                             weight |-> router_scores[e][t]]>>,
                                shared |-> <<>>]]]
    /\ bpc' = "shared_expert"
    /\ UNCHANGED <<block, raised>>
    /\ UNCHANGED <<conv_vars, naive_vars, dispatch_vars, openai_vars>>

\* out = self.shared_expert(hidden_states): OpenaiMLP.__init__ sets no
\* shared_expert, nn.Module.__getattr__ raises AttributeError
OpenaiShared ==
    /\ bpc = "shared_expert"
    /\ block.class = "OpenaiMLP"
    /\ BlockRaise("AttributeError")
    /\ UNCHANGED <<conv_vars, naive_vars, dispatch_vars, openai_vars>>

InitBlock == ConvIdle /\ BlockInit

NextBlock ==
    \/ QwenGate
    \/ SoftmaxStep
    \/ TopKStep
    \/ NormalizeStep
    \/ CastStep
    \/ PrepareStep
    \/ LoopStep
    \/ ReturnStep
    \/ QwenExperts
    \/ QwenAddShared
    \/ QwenReshape
    \/ OpenaiRouter
    \/ OpenaiTopK
    \/ OpenaiScatter
    \/ OpenaiSigmoid
    \/ OpenaiExpertsStep
    \/ OpenaiShared

SpecBlock == InitBlock /\ [][NextBlock]_vars

NextMoe ==
    \/ SoftmaxStep
    \/ TopKStep
    \/ NormalizeStep
    \/ CastStep
    \/ PrepareStep
    \/ LoopStep
    \/ ReturnStep

SpecMoe == InitMoe /\ [][NextMoe]_vars

(* --------------------------- vocabulary ------------------------------- *)
LastStep == IF steps = <<>> THEN "" ELSE steps[Len(steps)]
StateDictNames == Range(DictKeys(state_dict))
StateDictTensors == {state_dict[e].v : e \in DOMAIN state_dict}
\* the key the last iteration of the key loop handled, and its tensor
HandledKey == all_keys[i - 1]
HandledTensor == DictGet(loaded[1], HandledKey)

\* key matches a rule whose replacement is None
NullRuleMatches(key) ==
    \E r \in DOMAIN ORIGINAL_TO_CONVERTED_KEY_MAPPING :
        /\ ORIGINAL_TO_CONVERTED_KEY_MAPPING[r].replacement = None
        /\ Search(ORIGINAL_TO_CONVERTED_KEY_MAPPING[r].pattern, key)

\* key matches some rule of the table
SomeRuleMatches(key) ==
    \E r \in DOMAIN ORIGINAL_TO_CONVERTED_KEY_MAPPING :
        Search(ORIGINAL_TO_CONVERTED_KEY_MAPPING[r].pattern, key)

\* key is a fused projection of the source: it matches block.(\d+).attn.qkv
FusedRuleMatches(key) == Search(BlockN \o T_attn \o Dot \o T_qkv, key)

\* the canonical names of layer n (its index as text) the table's right
\* column aims at, the choice group resolved to each of q, k, v
LayerParams(n) ==
    LET at == T_layers \o Dot \o n \o Dot
    IN {at \o T_self_attn \o Dot \o p \o Dot \o T_weight :
            p \in {T_q_proj, T_k_proj, T_v_proj, T_o_proj}}
       \cup {at \o T_self_attn \o Dot \o T_sinks,
             at \o T_input_layernorm \o Dot \o T_weight,
             at \o T_mlp \o Dot \o T_gate_up_proj \o Dot \o T_weight,
             at \o T_mlp \o Dot \o T_gate_up_proj \o Dot \o T_bias,
             at \o T_mlp \o Dot \o T_down_proj \o Dot \o T_weight,
             at \o T_mlp \o Dot \o T_down_proj \o Dot \o T_bias,
             at \o T_post_attention_layernorm \o Dot \o T_weight,
             at \o T_mlp \o Dot \o T_router \o Dot \o T_weight}

ExpectedParams ==
    {T_embed_tokens \o Dot \o T_weight, T_lm_head \o Dot \o T_weight,
     T_norm \o Dot \o T_weight}
    \cup LayerParams(<<"0">>) \cup LayerParams(<<"1", "2">>)

\* name with its choice group "(k|v|q)" replaced by the letter c
Resolve(name, c) ==
    IF ~Contains(name, T_kvq) THEN name
    ELSE LET p == CHOOSE p \in 1..Len(name) : SubSeq(name, p, p + Len(T_kvq) - 1) = T_kvq
         IN SubSeq(name, 1, p - 1) \o <<c>> \o SubSeq(name, p + Len(T_kvq), Len(name))

(* ------------------------------- claims ------------------------------- *)

\* C1: once the key loop is over, a source name matching the null rule
\* (rope.freqs) has no entry in the state dict: its tensor is stored under
\* no name at all, be it the original, a shortened or the empty one.
C1_NullRuleRemovesName ==
    pc = "release" =>
        \A j \in DOMAIN all_keys :
            NullRuleMatches(all_keys[j]) =>
                DictGet(loaded[1], all_keys[j]) \notin StateDictTensors

\* C2: remapping raises no error, and every source name the table knows is
\* either dropped by the null rule or mapped to a name of the target's
\* expected parameter set (a fused name to names of the set, one per letter).
C2_EveryNameMappedOrDropped ==
    /\ ~(pc = "aborted" /\ Len(steps) >= 2 /\ steps[Len(steps) - 1] = "load")
    /\ pc \in {"keyloop", "release"} =>
          \A j \in DOMAIN new_keys :
              SomeRuleMatches(new_keys[j].k) =>
                  \/ NullRuleMatches(new_keys[j].k)
                  \/ \A c \in {"q", "k", "v"} : Resolve(new_keys[j].v, c) \in ExpectedParams

\* C3: once the key loop is over, every fused source projection
\* (block.N.attn.qkv) has its three chunks in the state dict, the first under
\* q_proj, the second under k_proj, the third under v_proj, and no name of
\* the state dict still holds the choice group "(k|v|q)".
C3_FusedProjectionSplit ==
    pc = "release" =>
        /\ \A j \in DOMAIN all_keys :
              FusedRuleMatches(all_keys[j]) =>
                  LET t == DictGet(loaded[1], all_keys[j])
                      name == DictGet(new_keys, all_keys[j])
                      part(c) == IF c = "q" THEN 1 ELSE IF c = "k" THEN 2 ELSE 3
                  IN \A c \in {"q", "k", "v"} :
                        /\ DictHas(state_dict, Resolve(name, c))
                        /\ DictGet(state_dict, Resolve(name, c))
                              = SubSeq(t, (part(c) - 1) * (Len(t) \div 3) + 1,
                                          part(c) * (Len(t) \div 3))
        /\ \A name \in StateDictNames : ~Contains(name, T_kvq)

\* the names a split of language_model.q_proj.weight writes
QName == T_language_model \o Dot \o T_q_proj \o Dot \o T_weight
KName == T_language_model \o Dot \o T_k_proj \o Dot \o T_weight
VName == T_language_model \o Dot \o T_v_proj \o Dot \o T_weight

\* C4: when the key loop has just split a tensor of last-axis size 3n, the
\* query, key and value entries each have last-axis size n, and query, key,
\* value joined in this order are the tensor that was split.
C4_SplitRoundTrip ==
    (LastStep = "split" /\ Len(HandledTensor) % 3 = 0) =>
        /\ {QName, KName, VName} \subseteq StateDictNames
        /\ \A name \in {QName, KName, VName} :
              Len(DictGet(state_dict, name)) = Len(HandledTensor) \div 3
        /\ DictGet(state_dict, QName) \o DictGet(state_dict, KName)
              \o DictGet(state_dict, VName) = HandledTensor

C4_Witness ==
    /\ LastStep = "split"
    /\ Len(HandledTensor) = 6
    /\ Len(DictGet(state_dict, VName)) = 2

\* C5: the key loop never completes a split of a tensor whose last-axis size
\* is not divisible by 3 (it raises, and stores no query/key/value entry).
C5_UnevenSplitIsFatal ==
    LastStep = "split" => Len(HandledTensor) % 3 = 0

\* the order of the steps as C6 has it
ClaimedRank(step) ==
    CASE step = "load" -> 1
      [] step = "remap" -> 2
      [] step \in {"split", "store"} -> 3
      [] step = "construct" -> 4
      [] step = "bind" -> 5
      [] step = "release" -> 6
      [] step = "save" -> 7
      [] step = "reload" -> 8
      [] OTHER -> 0

\* C6 as claimed: the steps of write_model come in the order load, remap,
\* split, construct, bind, release of the source tensors, persist, reload.
C6_ClaimedOrder ==
    \A a, b \in DOMAIN steps :
        (a < b /\ ClaimedRank(steps[a]) > 0 /\ ClaimedRank(steps[b]) > 0)
            => ClaimedRank(steps[a]) <= ClaimedRank(steps[b])

\* the order of the statements of write_model
StepOrder ==
    <<"makedirs", "config", "load", "remap", "keyloop", "release", "construct",
      "bind", "save", "release_target", "reload">>
StepRank(step) ==
    IF step \in {"split", "store"} THEN 5
    ELSE IF step \in Range(StepOrder)
         THEN CHOOSE r \in DOMAIN StepOrder : StepOrder[r] = step
         ELSE 0

\* C6, amended: the steps of write_model come in the order load, remap, key
\* loop (store or split per key), release of the loaded list, construct,
\* bind, persist, release of state_dict and model, reload, none skipped: the
\* loaded list is released before the target is constructed, and the reload
\* starts only after the persist.
C6_StepOrder ==
    \A j \in 2..Len(steps) :
        StepRank(steps[j]) > 0 =>
            \/ StepRank(steps[j]) = StepRank(steps[j - 1]) + 1
            \/ StepRank(steps[j]) = 5 /\ StepRank(steps[j - 1]) = 5

C6_Witness ==
    /\ LastStep = "reload"
    /\ "split" \in Range(steps)

\* the parameters of the target model the state dict has no tensor for
MissingParams == model.params \ StateDictNames

\* C7: a bind with a parameter of the target model missing from the state
\* dict raises, and after a raise nothing is persisted or reloaded.
C7_StrictBinding ==
    [][/\ (pc = "bind" /\ MissingParams # {}) => (pc' = "aborted" /\ fs' = fs)
       /\ pc = "aborted" => (pc' = "aborted" /\ fs' = fs)]_vars

C7_Witness ==
    /\ pc = "aborted"
    /\ Len(steps) >= 2
    /\ steps[Len(steps) - 1] = "construct"
    /\ MissingParams # {}
    /\ fs[args.output_dir].saved = <<>>

\* C8: a raise is the last thing a run does: no step follows it, and the
\* tokenizer is written only after write_model has completed.
C8_FailFast ==
    /\ \A j \in DOMAIN steps : steps[j] = "raise" => (j = Len(steps) /\ pc = "aborted")
    /\ "tokenizer.json" \in fs[args.output_dir].files =>
          \E j \in DOMAIN steps : steps[j] \in {"generation_config", "write_model"}

C8_Witness ==
    /\ pc = "aborted"
    /\ "save" \in Range(steps)
    /\ "reload" \notin Range(steps)
    /\ "tokenizer.json" \notin fs[args.output_dir].files

\* C9: after the load, every tensor of every shard file of the source
\* checkpoint directory is in the loaded mapping.
C9_AllShardsLoaded ==
    pc = "remap" =>
        \A s \in DOMAIN fs[args.input_dir].shards :
            \A e \in DOMAIN fs[args.input_dir].shards[s] :
                \E d \in DOMAIN loaded :
                    /\ DictHas(loaded[d], fs[args.input_dir].shards[s][e].k)
                    /\ DictGet(loaded[d], fs[args.input_dir].shards[s][e].k)
                          = fs[args.input_dir].shards[s][e].v
\* C10 as claimed: the selected weights of every input vector are
\* non-negative and, with norm_topk_prob set, sum to 1, in the weights the
\* forward pass goes on to use (after the cast to the input dtype).
C10_WeightsSumToOne ==
    mpc \in {"cast", "dispatch"} =>
        \A t \in DOMAIN routing_weights :
            /\ \A j \in DOMAIN routing_weights[t] : routing_weights[t][j][1] >= 0
            /\ moe.norm_topk_prob =>
                  RSum(routing_weights[t]) = <<1, 1>>

\* the distance of a fraction from 1 is at most half of units / Grid
WithinHalfUnits(w, units) ==
    LET diff == IF w[1] >= w[2] THEN w[1] - w[2] ELSE w[2] - w[1]
    IN 2 * Grid * diff <= units * w[2]

\* C10, amended: the selected weights of every input vector are
\* non-negative; with norm_topk_prob set they sum to 1 as normalised, and
\* after the cast to the input dtype their sum is within top_k half units of
\* that dtype's resolution of 1.
C10_WeightsSumToOneRounded ==
    \A t \in DOMAIN routing_weights :
        /\ \A j \in DOMAIN routing_weights[t] : routing_weights[t][j][1] >= 0
        /\ (moe.norm_topk_prob /\ mpc = "cast") =>
              RSum(routing_weights[t]) = <<1, 1>>
        /\ (moe.norm_topk_prob /\ mpc = "dispatch") =>
              WithinHalfUnits(RSum(routing_weights[t]), moe.top_k)

C10_Witness ==
    /\ mpc = "dispatch"
    /\ moe.norm_topk_prob
    /\ moe.top_k >= 2
    /\ \E t \in DOMAIN routing_weights :
          /\ routing_weights[t][1] # routing_weights[t][2]
          /\ RSum(routing_weights[t]) # <<1, 1>>

(* C11: Qwen2MoeSparseMoeBlock.forward completes for every input of shape
   (batch_size, sequence_length, hidden_size), batch_size > 1 included, and
   the hidden-state tensor it returns has exactly the input's shape: no
   shape error where the routed output, reshaped to three dimensions, and
   the two-dimensional shared-expert output are added. *)
C11_ShapePreserved ==
    block.class = "Qwen2MoeSparseMoeBlock" =>
        /\ bpc # "raised"
        /\ bpc = "return" => out.shape = block.shape

(* C12: in both MoE blocks the forward pass adds the shared expert's output
   for a vector to that vector's output, for every input vector, whatever
   experts it was routed to; the block defines the shared expert it uses, so
   the forward pass never fails for lack of it. *)
C12_SharedExpertAdded ==
    /\ raised # "AttributeError"
    /\ bpc = "return" =>
          \A p \in DOMAIN out.rows : out.rows[p].shared = <<p>>

\* what the Persisted layout lists, in output_dir
LayoutPresent ==
    LET files == fs[args.output_dir].files
    IN /\ {"config.json", "model.safetensors", "tokenizer.json"} \subseteq files
       /\ "chat_template.json" \in files <=> args.instruct
       /\ "generation_config.json" \in files <=> args.instruct

(* C13: a run of main whose input directory is well formed (its config was
   read) leaves in output_dir the model config file, the tensor data and the
   tokenizer file, and the chat-template file and the generation-defaults
   file exactly when --instruct is set. *)
C13_PersistedLayout ==
    (pc = "aborted" /\ "config" \in Range(steps)) => LayoutPresent

\* the rules of the table that match key, and what the first of them alone
\* makes of key (key itself when no rule matches)
MatchingRules(key) ==
    {r \in DOMAIN ORIGINAL_TO_CONVERTED_KEY_MAPPING :
        Search(ORIGINAL_TO_CONVERTED_KEY_MAPPING[r].pattern, key)}

FirstRuleOnly(key) ==
    IF MatchingRules(key) = {} THEN key
    ELSE LET r == CHOOSE r \in MatchingRules(key) : \A q \in MatchingRules(key) : r <= q
             rule == ORIGINAL_TO_CONVERTED_KEY_MAPPING[r]
         IN ReSub(rule.pattern,
                  IF rule.replacement = None THEN <<>> ELSE rule.replacement,
                  key, FALSE)

(* C15: rule ordering is first-match-wins: for every parameter name the
   result of convert_old_keys_to_new_keys is what the first rule of the
   table (in table order) that matches the name makes of it, and the
   function fails only where that first rule does; no later rule rewrites a
   name, or the output of an earlier rule, a second time. *)
C15_FirstMatchWins ==
    /\ pc \in {"keyloop", "release"} =>
          \A j \in DOMAIN new_keys : new_keys[j].v = FirstRuleOnly(new_keys[j].k)
    /\ (pc = "aborted" /\ steps[Len(steps) - 1] = "load") =>
          \E j \in DOMAIN loaded[1] : FirstRuleOnly(loaded[1][j].k) = ReError

\* the experts vector t was routed to, in either block
Selected(t) ==
    IF block.class = "OpenaiMLP" THEN Range(router_indices[t])
    ELSE Range(selected_experts[t])

\* no expert left out has a strictly higher raw gate score than one taken
HighestScores(t) ==
    \A a \in Selected(t) : \A b \in (1..moe.num_experts) \ Selected(t) :
        router_logits[t][b] <= router_logits[t][a]

\* the weights the Qwen2 forward uses for vector t: the softmax over all the
\* expert scores, taken at the selected experts, normalised when
\* norm_topk_prob is set, cast to the input's dtype
SoftmaxThenSelect(t) ==
    LET picked == [j \in 1..moe.top_k |->
                      Softmax(router_logits[t])[selected_experts[t][j]]]
        normed == IF moe.norm_topk_prob THEN NormalizeRow(picked) ELSE picked
    IN [j \in 1..moe.top_k |-> Cast(normed[j])]

(* C16: top-k routing in both MoE blocks. For every input vector exactly
   top_k distinct experts receive a non-zero weight, every other expert
   contributes with weight zero, and no expert left out has a strictly
   higher raw gate score than a selected one. The Qwen2 block takes the
   weights from a softmax over all expert scores computed before the
   selection; the Openai block applies a sigmoid to each selected raw score
   after the selection. *)
C16_TopKRouting ==
    /\ (block.class = "Qwen2MoeSparseMoeBlock" /\ mpc \in {"dispatch", "loop", "return"}) =>
          \A t \in DOMAIN router_logits :
              /\ Len(selected_experts[t]) = moe.top_k
              /\ Cardinality(Selected(t)) = moe.top_k
              /\ HighestScores(t)
              /\ routing_weights[t] = SoftmaxThenSelect(t)
              /\ \A j \in 1..moe.top_k : routing_weights[t][j][1] > 0
              /\ mpc = "return" =>
                    {c.expert : c \in Range(final_hidden_states[t])} = Selected(t)
    /\ (block.class = "OpenaiMLP" /\ bpc \in {"routed", "shared_expert", "raised"}) =>
          \A t \in DOMAIN router_logits :
              /\ Cardinality(Selected(t)) = moe.top_k
              /\ HighestScores(t)
              /\ \A e \in 1..moe.num_experts :
                    router_scores[e][t] =
                        IF e \in Selected(t)
                        THEN Cast(Sigmoid(router_logits[t][e]))
                        ELSE <<0, 1>>
              /\ {e \in 1..moe.num_experts : router_scores[e][t][1] > 0} = Selected(t)

\* a Qwen2 forward pass has returned, fewer experts selected than there are,
\* and a vector has an expert left out that scores strictly lower than one taken
C16_Witness ==
    /\ block.class = "Qwen2MoeSparseMoeBlock"
    /\ mpc = "return"
    /\ moe.top_k < moe.num_experts
    /\ \E t \in DOMAIN router_logits :
          \E a \in Selected(t) : \E b \in (1..moe.num_experts) \ Selected(t) :
              router_logits[t][b] < router_logits[t][a]

\* the terms the output row of vector t is to be the sum of: one per selected
\* expert, its output for t times the weight t gives it
RoutedTerms(t) ==
    {[expert |-> selected_experts[t][j], vector |-> t, weight |-> routing_weights[t][j]] :
        j \in 1..moe.top_k}

(* C17: sparse dispatch and accumulation in Qwen2MoeNaiveMoe.forward. Each
   expert is applied only to the vectors that selected it, and an expert
   selected by no vector is not applied at all; when the pass returns, the
   output row of every input vector is the sum, over exactly its top_k
   selected experts, of weight times that expert's output for the vector:
   each (vector, expert) pair contributes once and no row holds a term of
   another vector. *)
C17_SparseDispatch ==
    mpc \in {"loop", "return"} =>
        /\ \A c \in DOMAIN applied :
              /\ applied[c].vectors # <<>>
              /\ \A r \in DOMAIN applied[c].vectors :
                    applied[c].expert \in Range(selected_experts[applied[c].vectors[r]])
              /\ \A d \in DOMAIN applied : applied[d].expert = applied[c].expert => d = c
        /\ mpc = "return" =>
              \A t \in DOMAIN selected_experts :
                  /\ Len(final_hidden_states[t]) = moe.top_k
                  /\ Range(final_hidden_states[t]) = RoutedTerms(t)

\* a pass over two vectors or more has returned, each vector routed to more
\* than one expert, and some expert was chosen by no vector
C17_Witness ==
    /\ mpc = "return"
    /\ moe.top_k >= 2
    /\ Len(selected_experts) >= 2
    /\ \E e \in 1..moe.num_experts :
          /\ \A t \in DOMAIN selected_experts : e \notin Range(selected_experts[t])
          /\ \A c \in DOMAIN applied : applied[c].expert # e
====
